---- MODULE Spec2Model ----
(***************************************************************************)
(* Model of the iOS FFI bridge of matrix-rust-sdk:                         *)
(*   crates/matrix-sdk-ffi/src/ios/room.rs  (Room: live event listener)    *)
(*   crates/matrix-sdk-ffi/src/ios.rs       (Client: sync loop, accessors, *)
(*                                           restore token)                *)
(* Spec drives one Room handle and SpecClient one Client handle; each      *)
(* keeps the other's variables unchanged.  SpecFair is Spec under fair     *)
(* scheduling, SpecConc has a second thread calling the Room, SpecLock     *)
(* makes the lock of Room.delegate explicit, SpecDrop lets the caller drop *)
(* the Client handle, SpecCycle runs the sync callback from every          *)
(* ClientState.                                                            *)
(***************************************************************************)
EXTENDS Integers, Sequences, FiniteSets, TLC

\* ------------------------------------------------------------------ bounds
MaxEvents == 2        \* forward-stream items that arrive in a run
MaxCalls == 4         \* calls the caller makes on the Room in a run
MaxLoops == 2         \* start_sync calls in a run

\* ------------------------------------------------------------------ Room
VARIABLES
    flag,        \* Room.is_listening_to_live_events
    delegate,    \* Room.delegate: "none" or a delegate id
    tasks,       \* the listener tasks spawned so far, in spawn order
    cpc,         \* the caller thread's position inside start_live_event_listener
    sub,         \* the stream position the pending timeline() call subscribed at
    events,      \* the room's live events, in arrival order (their kinds)
    closed,      \* the forward streams have ended
    log,         \* did_receive_message invocations, in order
    res,         \* result of the most recent start_live_event_listener call
    h,           \* history of the caller's calls (see HInit)
    t2           \* a second thread that calls start_live_event_listener once:
                 \* its position in the call, its subscription, its result

roomVars == <<flag, delegate, tasks, cpc, sub, events, closed, log, res, h, t2>>

VARIABLES
    st,          \* Client.state: the ClientState record
    session,     \* the engine connection's session, or NoSession
    homeserver,  \* the engine connection's homeserver Url
    loops,       \* the sync loops start_sync has spawned, in spawn order
    ret,         \* the most recent accessor call and what it returned
    token,       \* the string the most recent restore_token call returned
    snap,        \* what the handle held when that call was made
    restored,    \* what login_with_token built from the token
    ch,          \* history of the accessor calls (see CHInit)
    held,        \* the caller still holds a reference to the Client Handle
    st0          \* the ClientState the handle was constructed with (history)

clientVars == <<st, session, homeserver, loops, ret, token, snap, restored, ch,
                held, st0>>

Kinds == {"msg", "malformed"}
Delegates == {"d1", "d2"}
NoMessage == [none |-> TRUE]

\* sync_event_to_message: a room message decodes to a Message; an event that
\* fails to deserialize or is of another kind ("malformed", for both) gives None.
sync_event_to_message(kind, idx) ==
    IF kind = "msg" THEN [body |-> idx] ELSE NoMessage

\* Room::new
RoomNew ==
    /\ flag = FALSE
    /\ delegate = "none"
    /\ tasks = << >>

\* What the caller has done so far; none of it is program state.
HInit ==
    [ calls        |-> 0,         \* calls begun
      lastFlagOp   |-> "none",    \* the most recent start/stop call
      prevFlagOp   |-> "none",    \* the start/stop call before that one
      epochHandle  |-> FALSE,     \* a start since the last stop returned a handle
      callSpawned  |-> 0,         \* tasks spawned by the most recent start call
      callTimeline |-> 0,         \* timelines requested by the most recent start call
      stopped      |-> FALSE,     \* stop has returned and no start was called since
      overlap      |-> FALSE ]    \* a timeline was acquired while a listener task was alive

RoomInit ==
    /\ RoomNew
    /\ cpc = "idle"
    /\ sub = 0
    /\ events = << >>
    /\ closed = FALSE
    /\ log = << >>
    /\ res = "none"
    /\ h = HInit
    /\ t2 = [pc |-> "idle", sub |-> 0, res |-> "none"]

\* line 85: the guard of start_live_event_listener
AlreadyListening(f) == f = TRUE

\* a listener task that never looks at the flag
CancelledNever(f) == FALSE

\* line 103: the listener task's cancellation check
Cancelled(f) == f = FALSE

\* a stream that, once it has yielded an item, yields that item again
NextIndexRepeats(cur) == IF cur >= 1 THEN cur ELSE cur + 1

\* line 102: the item forward_stream.next() yields to a task at position cur
NextIndex(cur) == cur + 1

\* line 99: the task start_live_event_listener spawns
NewTask(start) ==
    [ pc |-> "await", start |-> start, cur |-> start,
      afterStop |-> 0, pulledSinceStop |-> FALSE,
      undisturbed |-> delegate # "none" ]

\* start_live_event_listener, lines 85-87: read the flag, return None when set
StartCheck ==
    /\ cpc = "idle"
    /\ h.calls < MaxCalls
    /\ h' = [h EXCEPT !.calls = @ + 1,
                      !.prevFlagOp = h.lastFlagOp,
                      !.lastFlagOp = "start",
                      !.callSpawned = 0,
                      !.callTimeline = 0,
                      !.stopped = FALSE]
    /\ IF AlreadyListening(flag)
          THEN /\ res' = "None"
               /\ cpc' = "idle"
          ELSE /\ res' = "pending"
               /\ cpc' = "write"
    /\ UNCHANGED <<clientVars, t2, flag, delegate, tasks, sub, events, closed, log>>

\* line 89: set the flag
StartWrite ==
    /\ cpc = "write"
    /\ flag' = TRUE
    /\ cpc' = "timeline"
    /\ UNCHANGED <<clientVars, t2, delegate, tasks, sub, events, closed, log, res, h>>

\* lines 95-97: block on room.timeline(); the streams start at the present
StartTimelineOk ==
    /\ cpc = "timeline"
    /\ sub' = Len(events)
    /\ cpc' = "spawn"
    /\ h' = [h EXCEPT !.callTimeline = @ + 1,
                      !.overlap = @ \/ (\E k \in DOMAIN tasks : tasks[k].pc # "done")]
    /\ UNCHANGED <<clientVars, t2, flag, delegate, tasks, events, closed, log, res>>

\* line 96: timeline() failed, expect() panics; the flag stays as written
StartTimelineErr ==
    /\ cpc = "timeline"
    /\ cpc' = "idle"
    /\ res' = "Panic"
    /\ h' = [h EXCEPT !.callTimeline = @ + 1]
    /\ UNCHANGED <<clientVars, t2, flag, delegate, tasks, sub, events, closed, log>>

\* lines 99-114: spawn the listener task, return the backwards stream
StartSpawn ==
    /\ cpc = "spawn"
    /\ tasks' = Append(tasks, NewTask(sub))
    /\ cpc' = "idle"
    /\ res' = "Some"
    /\ h' = [h EXCEPT !.callSpawned = @ + 1,
                      !.epochHandle = TRUE]
    /\ UNCHANGED <<clientVars, t2, flag, delegate, sub, events, closed, log>>

\* a stop that leaves the flag as it is
StopValueKeeps(f) == f

\* line 118: the value stop_live_event_listener writes to the flag
StopValue(f) == FALSE

\* stop_live_event_listener, lines 117-119
Stop ==
    /\ cpc = "idle"
    /\ h.calls < MaxCalls
    /\ flag' = StopValue(flag)
    /\ tasks' = [k \in DOMAIN tasks |->
                   [tasks[k] EXCEPT !.afterStop = 0,
                                    !.pulledSinceStop = FALSE,
                                    !.undisturbed = FALSE]]
    /\ h' = [h EXCEPT !.calls = @ + 1,
                      !.prevFlagOp = h.lastFlagOp,
                      !.lastFlagOp = "stop",
                      !.epochHandle = FALSE,
                      !.stopped = TRUE]
    /\ UNCHANGED <<clientVars, t2, delegate, cpc, sub, events, closed, log, res>>

\* set_delegate, lines 34-36
SetDelegate(d) ==
    /\ cpc = "idle"
    /\ h.calls < MaxCalls
    /\ delegate' = d
    /\ tasks' = [k \in DOMAIN tasks |->
                   [tasks[k] EXCEPT !.undisturbed = @ /\ d # "none"]]
    /\ h' = [h EXCEPT !.calls = @ + 1]
    /\ UNCHANGED <<clientVars, t2, flag, cpc, sub, events, closed, log, res>>

\* line 102: forward_stream.next().await yields the next item
TaskPull(k) ==
    /\ tasks[k].pc = "await"
    /\ tasks[k].cur < Len(events)
    /\ tasks' = [tasks EXCEPT ![k].pc = "check",
                              ![k].cur = NextIndex(@),
                              ![k].pulledSinceStop = TRUE]
    /\ UNCHANGED <<clientVars, t2, flag, delegate, cpc, sub, events, closed, log, res, h>>

\* a listener task that clears the flag when its stream ends
TaskEndClearsFlag(k) ==
    /\ tasks[k].pc = "await"
    /\ tasks[k].cur = Len(events)
    /\ closed
    /\ tasks' = [tasks EXCEPT ![k].pc = "done"]
    /\ flag' = FALSE
    /\ UNCHANGED <<clientVars, t2, delegate, cpc, sub, events, closed, log, res, h>>

\* line 102: forward_stream.next().await yields None, the loop ends
TaskEnd(k) ==
    /\ tasks[k].pc = "await"
    /\ tasks[k].cur = Len(events)
    /\ closed
    /\ tasks' = [tasks EXCEPT ![k].pc = "done"]
    /\ UNCHANGED <<clientVars, t2, flag, delegate, cpc, sub, events, closed, log, res, h>>

\* lines 103-105: return when the flag is cleared
TaskCheck(k) ==
    /\ tasks[k].pc = "check"
    /\ tasks' = [tasks EXCEPT ![k].pc = IF Cancelled(flag) THEN "done" ELSE "deliver"]
    /\ UNCHANGED <<clientVars, t2, flag, delegate, cpc, sub, events, closed, log, res, h>>

\* a task that keeps invoking the delegate that was registered first
DeliveryToFirst(k) ==
    LET idx == tasks[k].cur
        message == sync_event_to_message(events[idx], idx)
    IN  IF delegate # "none" /\ message # NoMessage
           THEN << [task |-> k, idx |-> idx, to |-> "d1", message |-> message] >>
           ELSE << >>

\* lines 107-111: what the task passes to did_receive_message, if anything
Delivery(k) ==
    LET idx == tasks[k].cur
        message == sync_event_to_message(events[idx], idx)
    IN  IF delegate # "none" /\ message # NoMessage
           THEN << [task |-> k, idx |-> idx, to |-> delegate, message |-> message] >>
           ELSE << >>

\* a listener task that returns when an item does not decode
TaskDeliverEndsOnBadItem(k) ==
    /\ tasks[k].pc = "deliver"
    /\ log' = log \o Delivery(k)
    /\ tasks' = [tasks EXCEPT
                   ![k].pc = IF sync_event_to_message(events[tasks[k].cur], tasks[k].cur)
                                 = NoMessage
                             THEN "done" ELSE "await",
                   ![k].afterStop = @ + Len(Delivery(k))]
    /\ UNCHANGED <<clientVars, t2, flag, delegate, cpc, sub, events, closed, res, h>>

\* lines 107-111: read the delegate, decode the item, invoke the delegate
TaskDeliver(k) ==
    /\ tasks[k].pc = "deliver"
    /\ log' = log \o Delivery(k)
    /\ tasks' = [tasks EXCEPT ![k].pc = "await",
                              ![k].afterStop = @ + Len(Delivery(k))]
    /\ UNCHANGED <<clientVars, t2, flag, delegate, cpc, sub, events, closed, res, h>>

\* the protocol engine pushes a live event into the room's forward streams
Arrive(kind) ==
    /\ ~closed
    /\ Len(events) < MaxEvents
    /\ events' = Append(events, kind)
    /\ UNCHANGED <<clientVars, t2, flag, delegate, tasks, cpc, sub, closed, log, res, h>>

\* the protocol engine ends the forward streams
Close ==
    /\ ~closed
    /\ closed' = TRUE
    /\ UNCHANGED <<clientVars, t2, flag, delegate, tasks, cpc, sub, events, log, res, h>>

\* The same start_live_event_listener, called once from a second thread.
\* lines 85-87
OtherStartCheck ==
    /\ t2.pc = "idle"
    /\ t2' = IF AlreadyListening(flag)
                THEN [t2 EXCEPT !.pc = "returned", !.res = "None"]
                ELSE [t2 EXCEPT !.pc = "write", !.res = "pending"]
    /\ UNCHANGED <<clientVars, flag, delegate, tasks, cpc, sub, events, closed, log, res, h>>

\* line 89
OtherStartWrite ==
    /\ t2.pc = "write"
    /\ flag' = TRUE
    /\ t2' = [t2 EXCEPT !.pc = "timeline"]
    /\ UNCHANGED <<clientVars, delegate, tasks, cpc, sub, events, closed, log, res, h>>

\* lines 95-97
OtherStartTimelineOk ==
    /\ t2.pc = "timeline"
    /\ t2' = [t2 EXCEPT !.pc = "spawn", !.sub = Len(events)]
    /\ UNCHANGED <<clientVars, flag, delegate, tasks, cpc, sub, events, closed, log, res, h>>

\* line 96
OtherStartTimelineErr ==
    /\ t2.pc = "timeline"
    /\ t2' = [t2 EXCEPT !.pc = "returned", !.res = "Panic"]
    /\ UNCHANGED <<clientVars, flag, delegate, tasks, cpc, sub, events, closed, log, res, h>>

\* lines 99-114
OtherStartSpawn ==
    /\ t2.pc = "spawn"
    /\ tasks' = Append(tasks, NewTask(t2.sub))
    /\ t2' = [t2 EXCEPT !.pc = "returned", !.res = "Some"]
    /\ UNCHANGED <<clientVars, flag, delegate, cpc, sub, events, closed, log, res, h>>

RoomNext ==
    \/ StartCheck
    \/ StartWrite
    \/ StartTimelineOk
    \/ StartTimelineErr
    \/ StartSpawn
    \/ Stop
    \/ \E d \in Delegates \cup {"none"} : SetDelegate(d)
    \/ \E k \in DOMAIN tasks : TaskPull(k)
    \/ \E k \in DOMAIN tasks : TaskEnd(k)
    \/ \E k \in DOMAIN tasks : TaskCheck(k)
    \/ \E k \in DOMAIN tasks : TaskDeliver(k)
    \/ \E kind \in Kinds : Arrive(kind)
    \/ Close

\* ------------------------------------------------------------------ Client
NoSession == [none |-> TRUE]
NoToken == << >>
NoClient == [none |-> TRUE]
Err == [err |-> TRUE]

\* Strings that the code takes apart or puts together are sequences of pieces.
Str(x) == <<x>>

Sessions ==
    { [access_token |-> Str(a), user_id |-> Str("@u:hs"), device_id |-> Str(d)] :
        a \in {"tokA", "tokB"}, d \in {"DEV"} }

\* The homeurl strings a caller passes in: scheme, "://", host, path.
RawUrls ==
    { <<"https", "://", "hs.org", "">>,
      <<"https", "://", "hs.org", "/">>,
      <<"http", "://", "other.net", "/base">>,
      <<"hs.org">> }

\* Url::parse: a Url, with the empty path of a special scheme made "/", or Err
UrlParse(str) ==
    IF Len(str) = 4 /\ str[2] = "://" /\ str[1] \in {"http", "https"} /\ str[3] # ""
       THEN [scheme |-> str[1], host |-> str[3],
             path |-> IF str[4] = "" THEN "/" ELSE str[4]]
       ELSE Err

\* Url -> String (line 231, .into())
UrlToString(u) == <<u.scheme, "://", u.host, u.path>>

\* JSON text is a sequence of tokens.
Punct(c) == [t |-> "punct", v |-> Str(c)]
JStr(s) == [t |-> "string", v |-> s]
JBool(b) == [t |-> "literal", v |-> Str(IF b THEN "true" ELSE "false")]

\* Serialize for Session: its three fields, in declaration order
SessionToJson(s) ==
    << Punct("{"),
       JStr(Str("access_token")), Punct(":"), JStr(s.access_token), Punct(","),
       JStr(Str("user_id")), Punct(":"), JStr(s.user_id), Punct(","),
       JStr(Str("device_id")), Punct(":"), JStr(s.device_id),
       Punct("}") >>

\* lines 69-74: Serialize for RestoreToken, fields in declaration order
RestoreTokenToJson(tok) ==
    << Punct("{"),
       JStr(Str("is_guest")), Punct(":"), JBool(tok.is_guest), Punct(","),
       JStr(Str("homeurl")), Punct(":"), JStr(tok.homeurl), Punct(","),
       JStr(Str("session")), Punct(":") >>
    \o SessionToJson(tok.session)
    \o << Punct("}") >>

\* the positions, among lo..hi, of the value of the member named key
Member(text, key, lo, hi) ==
    LET name == JStr(Str(key))
        colon == Punct(":")
    IN  { i \in (lo + 2)..hi : text[i - 2] = name /\ text[i - 1] = colon }

\* Deserialize for RestoreToken (line 306): an object with the members
\* is_guest (a boolean), homeurl (a string) and session (an object with three
\* string members), each once; anything else is an error
RestoreTokenFromJson(text) ==
    LET n == Len(text)
        one(S) == CHOOSE x \in S : TRUE
        g == Member(text, "is_guest", 2, n - 1)
        u == Member(text, "homeurl", 2, n - 1)
        s == Member(text, "session", 2, n - 1)
        open == one(s)
        close == CHOOSE j \in open..n :
                    /\ text[j] = Punct("}")
                    /\ \A k \in open..(j - 1) : text[k] # Punct("}")
        a == Member(text, "access_token", open + 1, close - 1)
        i == Member(text, "user_id", open + 1, close - 1)
        d == Member(text, "device_id", open + 1, close - 1)
    IN  IF /\ n >= 2 /\ text[1] = Punct("{") /\ text[n] = Punct("}")
           /\ \A S \in {g, u, s} : Cardinality(S) = 1
           /\ text[one(g)].t = "literal"
           /\ text[one(u)].t = "string"
           /\ text[open] = Punct("{")
           /\ close < n
           /\ \A S \in {a, i, d} : Cardinality(S) = 1
           /\ \A p \in {one(a), one(i), one(d)} : text[p].t = "string"
           THEN [ is_guest |-> text[one(g)].v = Str("true"),
                  homeurl |-> text[one(u)].v,
                  session |-> [ access_token |-> text[one(a)].v,
                                user_id |-> text[one(i)].v,
                                device_id |-> text[one(d)].v ] ]
           ELSE Err

\* a builder whose default for should_stop_syncing is true
ClientStateBuildStopping(g) ==
    [ is_guest |-> g, has_first_synced |-> FALSE,
      is_syncing |-> FALSE, should_stop_syncing |-> TRUE ]

\* lines 51-61: ClientStateBuilder::default().is_guest(g).build()
ClientStateBuild(g) ==
    [ is_guest |-> g, has_first_synced |-> FALSE,
      is_syncing |-> FALSE, should_stop_syncing |-> FALSE ]

\* lines 181-186: Client::new over an engine connection
ClientNew(sess, url, state) ==
    [ session |-> sess, homeserver |-> url, state |-> state ]

\* guest_client, lines 286-303
guest_client(homeurl, registered) ==
    IF UrlParse(homeurl) = Err THEN Err
    ELSE ClientNew(registered, UrlParse(homeurl), ClientStateBuild(TRUE))

\* login_new_client, lines 319-329; the engine discovers the homeserver
login_new_client(discovered, loggedIn) ==
    ClientNew(loggedIn, discovered, ClientStateBuild(FALSE))

\* login_with_token, lines 305-316
login_with_token(text) ==
    LET tok == RestoreTokenFromJson(text)
    IN  IF tok = Err THEN Err
        ELSE IF UrlParse(tok.homeurl) = Err THEN Err
        ELSE ClientNew(tok.session, UrlParse(tok.homeurl), ClientStateBuild(tok.is_guest))

Urls == { UrlParse(r) : r \in RawUrls } \ {Err}

Constructed ==
    ({ guest_client(r, s) : r \in RawUrls, s \in Sessions }
     \cup { login_new_client(u, s) : u \in Urls, s \in Sessions }) \ {Err}

\* What the caller has seen so far; none of it is program state.
CHInit ==
    [ seenFirstSynced |-> FALSE,    \* has_first_synced() has returned true
      startSyncCalls  |-> 0 ]       \* start_sync calls made

ClientInit ==
    /\ \E c \in Constructed :
          /\ st = c.state
          /\ session = c.session
          /\ homeserver = c.homeserver
    /\ loops = << >>
    /\ ret = [op |-> "none", val |-> FALSE, field |-> FALSE]
    /\ token = NoToken
    /\ snap = NoClient
    /\ restored = NoClient
    /\ ch = CHInit
    /\ held = TRUE
    /\ st0 = st

\* The task start_sync spawns.  It owns clones of client and state (lines
\* 189-190) and the delegate box of its call (moved into the closure).
NewLoop(n) ==
    [ pc        |-> "sync",
      dlg       |-> n,        \* the delegate of the n-th start_sync call
      notes     |-> 0,        \* delegate invocations in the cycle under way
      to        |-> 0,        \* the delegate the last invocation went to
      cycled    |-> FALSE,    \* a callback has returned Continue
      afterDrop |-> FALSE ]   \* the last read of should_stop_syncing came
                              \* after the caller dropped the handle

\* start_sync behind a guard: a second call spawns nothing
StartSyncOnce ==
    /\ held
    /\ Len(loops) < MaxLoops
    /\ loops' = IF loops = << >> THEN << NewLoop(1) >> ELSE loops
    /\ ch' = [ch EXCEPT !.startSyncCalls = @ + 1]
    /\ UNCHANGED <<roomVars, held, st0, st, session, homeserver, ret, token, snap, restored>>

\* start_sync, lines 188-210: spawn a sync loop; there is no guard
StartSync ==
    /\ held
    /\ Len(loops) < MaxLoops
    /\ loops' = Append(loops, NewLoop(Len(loops) + 1))
    /\ ch' = [ch EXCEPT !.startSyncCalls = @ + 1]
    /\ UNCHANGED <<roomVars, held, st0, st, session, homeserver, ret, token, snap, restored>>

\* a round trip whose callback does not call the delegate
SyncRoundSilent(l) ==
    /\ loops[l].pc = "sync"
    /\ loops' = [loops EXCEPT ![l].pc = "rd_first"]
    /\ UNCHANGED <<roomVars, held, st0, st, session, homeserver, ret, token, snap, restored, ch>>

\* lines 192-194: a sync round trip completes, the callback is entered and
\* calls delegate.did_receive_sync_update()
SyncRound(l) ==
    /\ loops[l].pc = "sync"
    /\ loops' = [loops EXCEPT ![l].pc = "rd_first",
                               ![l].notes = @ + 1,
                               ![l].to = loops[l].dlg]
    /\ UNCHANGED <<roomVars, held, st0, st, session, homeserver, ret, token, snap, restored, ch>>

\* a callback that goes on to the stop check without setting has_first_synced
ReadFirstSyncedSkips(l) ==
    /\ loops[l].pc = "rd_first"
    /\ loops' = [loops EXCEPT ![l].pc = "rd_stop"]
    /\ UNCHANGED <<roomVars, held, st0, st, session, homeserver, ret, token, snap, restored, ch>>

\* line 196: read has_first_synced
ReadFirstSynced(l) ==
    /\ loops[l].pc = "rd_first"
    /\ loops' = [loops EXCEPT ![l].pc =
                    IF ~st.has_first_synced THEN "wr_first" ELSE "rd_stop"]
    /\ UNCHANGED <<roomVars, held, st0, st, session, homeserver, ret, token, snap, restored, ch>>

\* a write that flips has_first_synced
WithFirstSyncedFlipped(s) == [s EXCEPT !.has_first_synced = ~@]

\* line 197: the state after the write of has_first_synced
WithFirstSynced(s) == [s EXCEPT !.has_first_synced = TRUE]

\* line 197: write has_first_synced
WriteFirstSynced(l) ==
    /\ loops[l].pc = "wr_first"
    /\ st' = WithFirstSynced(st)
    /\ loops' = [loops EXCEPT ![l].pc = "rd_stop"]
    /\ UNCHANGED <<roomVars, held, st0, session, homeserver, ret, token, snap, restored, ch>>

\* line 200: read should_stop_syncing
ReadShouldStop(l) ==
    /\ loops[l].pc = "rd_stop"
    /\ loops' = [loops EXCEPT ![l].pc =
                    IF st.should_stop_syncing THEN "wr_stop" ELSE "rd_syncing",
                               ![l].afterDrop = ~held]
    /\ UNCHANGED <<roomVars, held, st0, st, session, homeserver, ret, token, snap, restored, ch>>

\* line 207: the callback returns LoopCtrl::Continue and the loop starts
\* its next round trip
Continue(loop) == [loop EXCEPT !.pc = "sync", !.notes = 0, !.cycled = TRUE]

\* line 203: read is_syncing
ReadIsSyncing(l) ==
    /\ loops[l].pc = "rd_syncing"
    /\ loops' = IF ~st.is_syncing
                    THEN [loops EXCEPT ![l].pc = "wr_syncing"]
                    ELSE [loops EXCEPT ![l] = Continue(@)]
    /\ UNCHANGED <<roomVars, held, st0, st, session, homeserver, ret, token, snap, restored, ch>>

\* lines 201-202 and 204: write is_syncing; false ends the loop (Break)
WriteIsSyncing(l) ==
    /\ loops[l].pc \in {"wr_stop", "wr_syncing"}
    /\ st' = [st EXCEPT !.is_syncing = (loops[l].pc = "wr_syncing")]
    /\ loops' = IF loops[l].pc = "wr_stop"
                    THEN [loops EXCEPT ![l].pc = "stopped"]
                    ELSE [loops EXCEPT ![l] = Continue(@)]
    /\ UNCHANGED <<roomVars, held, st0, session, homeserver, ret, token, snap, restored, ch>>

\* lines 214-216
has_first_synced(s) == s.has_first_synced

\* lines 219-221
is_syncing(s) == s.has_first_synced

\* lines 224-226
is_guest(s) == s.is_guest

\* An accessor call.  ret.field is, for a ClientState accessor, the field the
\* accessor is named after, and for restore_token, whether a session was there.
HasFirstSynced ==
    /\ held
    /\ ret' = [op |-> "has_first_synced", val |-> has_first_synced(st),
               field |-> st.has_first_synced]
    /\ ch' = [ch EXCEPT !.seenFirstSynced = @ \/ has_first_synced(st)]
    /\ UNCHANGED <<roomVars, held, st0, st, session, homeserver, loops, token, snap, restored>>

IsSyncing ==
    /\ held
    /\ ret' = [op |-> "is_syncing", val |-> is_syncing(st), field |-> st.is_syncing]
    /\ UNCHANGED <<roomVars, held, st0, st, session, homeserver, loops, token, snap, restored, ch>>

IsGuest ==
    /\ held
    /\ ret' = [op |-> "is_guest", val |-> is_guest(st), field |-> st.is_guest]
    /\ UNCHANGED <<roomVars, held, st0, st, session, homeserver, loops, token, snap, restored, ch>>

\* a token that does not carry is_guest
RestoreTokenOfNotGuest(sess, url, state) ==
    [ session |-> sess, homeurl |-> UrlToString(url), is_guest |-> FALSE ]

\* lines 232-234: the RestoreToken value restore_token serializes
RestoreTokenOf(sess, url, state) ==
    [ session |-> sess, homeurl |-> UrlToString(url), is_guest |-> state.is_guest ]

\* restore_token, lines 228-236; expect() panics when there is no session
RestoreToken ==
    /\ held
    /\ IF session = NoSession
          THEN /\ ret' = [op |-> "restore_token", val |-> "Panic", field |-> FALSE]
               /\ UNCHANGED <<roomVars, held, st0, token, snap>>
          ELSE /\ ret' = [op |-> "restore_token", val |-> "Ok", field |-> TRUE]
               /\ token' = RestoreTokenToJson(RestoreTokenOf(session, homeserver, st))
               /\ snap' = [session |-> session, homeserver |-> homeserver,
                           is_guest |-> st.is_guest]
    /\ UNCHANGED <<roomVars, held, st0, st, session, homeserver, loops, restored, ch>>

\* login_with_token on the token restore_token returned
LoginWithToken ==
    /\ token # NoToken
    /\ restored' = login_with_token(token)
    /\ UNCHANGED <<roomVars, held, st0, st, session, homeserver, loops, ret, token, snap, ch>>

\* line 230: session() is an Option; the engine connection, which the handle
\* shares (Deref to MatrixClient), comes to hold no session
SessionGone ==
    /\ session # NoSession
    /\ session' = NoSession
    /\ UNCHANGED <<roomVars, held, st0, st, homeserver, loops, ret, token, snap, restored, ch>>

\* the caller drops its last reference to the Client Handle; the clones the
\* spawned tasks own (lines 189-190) are not the caller's
Drop ==
    /\ held
    /\ held' = FALSE
    /\ UNCHANGED <<roomVars, st0, st, session, homeserver, loops, ret, token, snap, restored, ch>>

ClientNext ==
    \/ StartSync
    \/ \E l \in DOMAIN loops : SyncRound(l)
    \/ \E l \in DOMAIN loops : ReadFirstSynced(l)
    \/ \E l \in DOMAIN loops : WriteFirstSynced(l)
    \/ \E l \in DOMAIN loops : ReadShouldStop(l)
    \/ \E l \in DOMAIN loops : ReadIsSyncing(l)
    \/ \E l \in DOMAIN loops : WriteIsSyncing(l)
    \/ HasFirstSynced
    \/ IsSyncing
    \/ IsGuest
    \/ RestoreToken
    \/ LoginWithToken
    \/ SessionGone

\* a handle nothing is called on
ClientParked ==
    /\ st = ClientStateBuild(FALSE)
    /\ session = NoSession
    /\ homeserver = Err
    /\ loops = << >>
    /\ ret = [op |-> "none", val |-> FALSE, field |-> FALSE]
    /\ token = NoToken
    /\ snap = NoClient
    /\ restored = NoClient
    /\ ch = CHInit
    /\ held = TRUE
    /\ st0 = st

\* ------------------------------------------------------------------ specifications
vars == <<roomVars, clientVars>>

Init == RoomInit /\ ClientParked

Next == RoomNext

Spec == Init /\ [][Next]_vars

InitClient == ClientInit /\ RoomInit

NextClient == ClientNext

SpecClient == InitClient /\ [][NextClient]_vars

\* The Room under fair scheduling: the runtime keeps polling a task that can
\* take a step (RUNTIME.spawn, line 99), and a call the caller thread is in
\* runs to its return.  The engine owes the room no further event.
TaskStep(k) ==
    /\ k \in DOMAIN tasks
    /\ (TaskPull(k) \/ TaskEnd(k) \/ TaskCheck(k) \/ TaskDeliver(k))

CallStep == StartWrite \/ StartTimelineOk \/ StartTimelineErr \/ StartSpawn

Fairness ==
    /\ WF_vars(CallStep)
    /\ \A k \in 1..MaxCalls : WF_vars(TaskStep(k))

SpecFair == Init /\ [][Next]_vars /\ Fairness

\* The Room with the lock of `delegate` made explicit.  The read guard the
\* task takes in `if let Some(delegate) = &*delegate.read()` (line 107) lives
\* to the end of the if-let body, so it is held while did_receive_message
\* runs; set_delegate needs the write lock (line 35).  The delegate is the
\* caller's code and may call set_delegate on the room from the callback.
Readers == { k \in DOMAIN tasks : tasks[k].pc \in {"callback", "cb_write"} }

\* a set_delegate call waits for the write lock: the caller thread's (0) or
\* the one made from the callback task w runs
WaitsToWrite(w) ==
    IF w = 0 THEN cpc = "set_delegate"
             ELSE w \in DOMAIN tasks /\ tasks[w].pc = "cb_write"

WriterWaiting == \E w \in 0..MaxCalls : WaitsToWrite(w)

\* lines 107-109: take the read guard (RwLock::read waits while a writer is
\* queued); with a delegate and a message, enter did_receive_message
TaskReadDelegate(k) ==
    /\ tasks[k].pc = "deliver"
    /\ ~WriterWaiting
    /\ log' = log \o Delivery(k)
    /\ tasks' = [tasks EXCEPT ![k].pc = IF Delivery(k) = << >> THEN "await" ELSE "callback",
                              ![k].afterStop = @ + Len(Delivery(k))]
    /\ UNCHANGED <<clientVars, t2, flag, delegate, cpc, sub, events, closed, res, h>>

\* lines 109-111: did_receive_message returns, the guard is dropped
CallbackReturn(k) ==
    /\ tasks[k].pc = "callback"
    /\ tasks' = [tasks EXCEPT ![k].pc = "await"]
    /\ UNCHANGED <<clientVars, t2, flag, delegate, cpc, sub, events, closed, log, res, h>>

\* line 109: did_receive_message calls set_delegate on the same room, which
\* requests the write lock (line 35) on the task's thread
CallbackSetDelegate(k) ==
    /\ tasks[k].pc = "callback"
    /\ tasks' = [tasks EXCEPT ![k].pc = "cb_write"]
    /\ UNCHANGED <<clientVars, t2, flag, delegate, cpc, sub, events, closed, log, res, h>>

\* line 34: the caller thread calls set_delegate
SetDelegateCall ==
    /\ cpc = "idle"
    /\ h.calls < MaxCalls
    /\ cpc' = "set_delegate"
    /\ h' = [h EXCEPT !.calls = @ + 1]
    /\ UNCHANGED <<clientVars, t2, flag, delegate, tasks, sub, events, closed, log, res>>

\* line 35: the write lock is granted when no read guard is held; the
\* delegate is replaced and set_delegate returns
SetDelegateWrite(w, d) ==
    /\ WaitsToWrite(w)
    /\ Readers = {}
    /\ delegate' = d
    /\ cpc' = IF w = 0 THEN "idle" ELSE cpc
    /\ tasks' = [k \in DOMAIN tasks |->
                   [tasks[k] EXCEPT !.undisturbed = @ /\ d # "none",
                                    !.pc = IF k = w THEN "callback" ELSE @]]
    /\ UNCHANGED <<clientVars, t2, flag, sub, events, closed, log, res, h>>

NextLock ==
    \/ StartCheck
    \/ StartWrite
    \/ StartTimelineOk
    \/ StartTimelineErr
    \/ StartSpawn
    \/ SetDelegateCall
    \/ \E w \in 0..MaxCalls : \E d \in Delegates \cup {"none"} : SetDelegateWrite(w, d)
    \/ \E k \in DOMAIN tasks : TaskPull(k)
    \/ \E k \in DOMAIN tasks : TaskEnd(k)
    \/ \E k \in DOMAIN tasks : TaskCheck(k)
    \/ \E k \in DOMAIN tasks : TaskReadDelegate(k)
    \/ \E k \in DOMAIN tasks : CallbackReturn(k)
    \/ \E k \in DOMAIN tasks : CallbackSetDelegate(k)
    \/ \E kind \in Kinds : Arrive(kind)
    \/ Close

\* a poll of task k; did_receive_message returns unless it is blocked
TaskLockStep(k) ==
    /\ k \in DOMAIN tasks
    /\ (TaskPull(k) \/ TaskEnd(k) \/ TaskCheck(k) \/ TaskReadDelegate(k) \/ CallbackReturn(k))

FairnessLock ==
    /\ WF_vars(CallStep)
    /\ \A k \in 1..MaxCalls : WF_vars(TaskLockStep(k))
    /\ \A w \in 0..MaxCalls :
          WF_vars(\E d \in Delegates \cup {"none"} : SetDelegateWrite(w, d))

SpecLock == Init /\ [][NextLock]_vars /\ FairnessLock

\* The Room with two threads that call start_live_event_listener, and no
\* other call.
NextConc ==
    \/ StartCheck
    \/ StartWrite
    \/ StartTimelineOk
    \/ StartTimelineErr
    \/ StartSpawn
    \/ OtherStartCheck
    \/ OtherStartWrite
    \/ OtherStartTimelineOk
    \/ OtherStartTimelineErr
    \/ OtherStartSpawn
    \/ \E k \in DOMAIN tasks : TaskPull(k)
    \/ \E k \in DOMAIN tasks : TaskEnd(k)
    \/ \E k \in DOMAIN tasks : TaskCheck(k)
    \/ \E k \in DOMAIN tasks : TaskDeliver(k)
    \/ \E kind \in Kinds : Arrive(kind)
    \/ Close

SpecConc == Init /\ [][NextConc]_vars

\* The Client Handle with a caller that drops it.
NextDrop == ClientNext \/ Drop

SpecDrop == InitClient /\ [][NextDrop]_vars

\* The per-cycle callback of start_sync over every ClientState: the derived
\* ClientStateBuilder (lines 51-61) builds any combination of the four fields.
ClientStates ==
    [ is_guest : BOOLEAN, has_first_synced : BOOLEAN,
      is_syncing : BOOLEAN, should_stop_syncing : BOOLEAN ]

InitCycle ==
    /\ RoomInit
    /\ st \in ClientStates
    /\ session = NoSession
    /\ homeserver = Err
    /\ loops = << >>
    /\ ret = [op |-> "none", val |-> FALSE, field |-> FALSE]
    /\ token = NoToken
    /\ snap = NoClient
    /\ restored = NoClient
    /\ ch = CHInit
    /\ held = TRUE
    /\ st0 = st

NextCycle ==
    \/ StartSync
    \/ \E l \in DOMAIN loops : SyncRound(l)
    \/ \E l \in DOMAIN loops : ReadFirstSynced(l)
    \/ \E l \in DOMAIN loops : WriteFirstSynced(l)
    \/ \E l \in DOMAIN loops : ReadShouldStop(l)
    \/ \E l \in DOMAIN loops : ReadIsSyncing(l)
    \/ \E l \in DOMAIN loops : WriteIsSyncing(l)

SpecCycle == InitCycle /\ [][NextCycle]_vars

\* ------------------------------------------------------------------ Room: properties
Alive(k) == tasks[k].pc # "done"

AliveTasks == { k \in DOMAIN tasks : Alive(k) }

\* a task that will invoke the delegate for an item: it is past its flag
\* check, or it is alive and its next flag check reads true
Forwarding(k) == Alive(k) /\ (tasks[k].pc = "deliver" \/ flag)

\* the stream positions of the items task k passed to did_receive_message
DeliveredBy(k) ==
    LET mine == SelectSeq(log, LAMBDA e : e.task = k)
    IN  [i \in 1..Len(mine) |-> mine[i].idx]

DeliveredAll == [i \in 1..Len(log) |-> log[i].idx]

StrictlyIncreasing(q) == \A i \in 1..(Len(q) - 1) : q[i] < q[i + 1]

\* the last item task k has finished with
ProcessedUpTo(k) ==
    IF tasks[k].pc \in {"check", "deliver"} THEN tasks[k].cur - 1 ELSE tasks[k].cur

\* the positions, in stream order, of the items that decode to a message among
\* those task k has finished with
ValidProcessed(k) ==
    LET n == ProcessedUpTo(k) - tasks[k].start
        all == [i \in 1..n |-> tasks[k].start + i]
    IN  SelectSeq(all, LAMBDA i : sync_event_to_message(events[i], i) # NoMessage)

\* the caller is between calls and its last two start/stop calls were a, b
LastTwo(a, b) == cpc = "idle" /\ h.prevFlagOp = a /\ h.lastFlagOp = b

\* C1: a start_live_event_listener call that follows another one with no stop
\* in between returns None, spawns no task and requests no timeline, and so
\* (a start since the last stop having returned a handle, the stream still
\* open) exactly one listener task is forwarding events for the room.
C1_DoubleStartGuard ==
    LastTwo("start", "start") =>
        /\ res = "None"
        /\ h.callSpawned = 0
        /\ h.callTimeline = 0
        /\ (h.epochHandle /\ ~closed) => Cardinality(AliveTasks) = 1

\* C2: at most one listener task is alive and able to invoke the delegate,
\* and no item is delivered to the delegate twice.
C2_AtMostOneListener ==
    /\ Cardinality({ k \in DOMAIN tasks : Forwarding(k) }) <= 1
    /\ \A i, j \in 1..Len(log) : log[i].idx = log[j].idx => i = j

C4_OrderPreserved ==
    /\ \A k \in DOMAIN tasks :
          /\ StrictlyIncreasing(DeliveredBy(k))
          /\ \A i \in 1..Len(DeliveredBy(k)) :
                /\ DeliveredBy(k)[i] > tasks[k].start
                /\ DeliveredBy(k)[i] <= tasks[k].cur
    /\ \A i \in 1..Len(log) :
          /\ log[i].message # NoMessage
          /\ log[i].message = sync_event_to_message(events[log[i].idx], log[i].idx)
    /\ ~h.overlap => StrictlyIncreasing(DeliveredAll)

C4_Witness ==
    /\ Len(tasks) = 1
    /\ events = <<"msg", "msg">>
    /\ DeliveredAll = <<1, 2>>

\* C5: a listener task that has had a delegate registered and the flag set
\* ever since it was spawned has invoked the delegate exactly for the items
\* that decode to a message among those it took from the stream, and it ends
\* only when the stream has ended: an undecodable item is skipped.
C5_SkipOnDecodeFailure ==
    \A k \in DOMAIN tasks :
        tasks[k].undisturbed =>
            /\ DeliveredBy(k) = ValidProcessed(k)
            /\ Alive(k) \/ (closed /\ tasks[k].cur = Len(events))

C5_Witness ==
    \E k \in DOMAIN tasks :
        /\ tasks[k].undisturbed
        /\ tasks[k].start = 0
        /\ events = <<"malformed", "msg">>
        /\ DeliveredBy(k) = <<2>>

\* C6: once stop_live_event_listener has returned, and until the next start,
\* each listener task invokes the delegate for at most one more item, and no
\* task gets past its flag check with an item it pulled after the stop.
C6_CancellationLatency ==
    h.stopped =>
        \A k \in DOMAIN tasks :
            /\ tasks[k].afterStop <= 1
            /\ tasks[k].pc = "deliver" => ~tasks[k].pulledSinceStop

C6_Witness ==
    /\ h.stopped
    /\ ~closed
    /\ \E k \in DOMAIN tasks : tasks[k].afterStop = 1 /\ tasks[k].pc = "done"

\* ------------------------------------------------------------------ Client: properties
\* the credentials, endpoint and is_guest a handle holds
Held(c) ==
    [ session |-> c.session, homeserver |-> c.homeserver, is_guest |-> c.state.is_guest ]

\* C7: has_first_synced is never written back to false (so it goes from false
\* to true at most once), and once has_first_synced() has returned true every
\* later call returns true.
C7_FirstSyncedMonotonic ==
    [][ /\ st.has_first_synced => st'.has_first_synced
        /\ (ch.seenFirstSynced /\ ret'.op = "has_first_synced") => ret'.val = TRUE ]_vars

C7_Witness ==
    /\ st.has_first_synced
    /\ ch.seenFirstSynced
    /\ \E l \in DOMAIN loops : loops[l].pc = "wr_first"

\* C8: each ClientState accessor returns the current value of the field it is
\* named after.
C8_AccessorsReturnOwnField ==
    ret.op \in {"has_first_synced", "is_syncing", "is_guest"} => ret.val = ret.field

\* C9: login_with_token on the string restore_token returned builds a handle
\* with the session, homeserver and is_guest the first handle held when
\* restore_token was called, whatever has happened to that handle since.
C9_RestoreTokenRoundTrip ==
    /\ token # NoToken =>
          LET c == login_with_token(token)
          IN  c # Err /\ Held(c) = snap
    /\ restored # NoClient =>
          /\ restored # Err
          /\ Held(restored) = snap

C9_Witness ==
    /\ restored # NoClient
    /\ snap.is_guest
    /\ snap.homeserver.path = "/base"
    /\ st.has_first_synced
    /\ st.is_syncing
    /\ session = NoSession

\* C10: restore_token on a handle without a session returns a failure value to
\* the caller; it does not panic.
C10_NoSessionIsAFailureValue ==
    (ret.op = "restore_token" /\ ret.field = FALSE) => ret.val = "Err"

\* C11: once the caller has dropped its last reference to the Client Handle, a
\* sync loop ends at its next check: a loop whose last check came after the
\* drop is on the stop branch or has stopped.
C11_DroppedHandleEndsLoop ==
    \A l \in DOMAIN loops :
        loops[l].afterDrop => loops[l].pc \in {"wr_stop", "stopped"}

\* the callback of loop l is running: it was entered and has not returned
InCallback(l) ==
    loops[l].pc \in {"rd_first", "wr_first", "rd_stop", "wr_stop", "rd_syncing", "wr_syncing"}

\* where loop l is, against the order of the steps of a cycle
CycleRule(l) ==
    LET p == loops[l].pc
    IN  /\ InCallback(l) => loops[l].notes = 1 /\ loops[l].to = loops[l].dlg
        /\ p = "sync" => loops[l].notes = 0
        /\ p \in {"rd_stop", "wr_stop", "rd_syncing", "wr_syncing", "stopped"}
              => st.has_first_synced
        /\ p \in {"wr_stop", "stopped"} => st.should_stop_syncing
        /\ p \in {"rd_syncing", "wr_syncing"} => ~st.should_stop_syncing
        /\ p = "stopped" => ~st.is_syncing /\ loops[l].notes = 1
        /\ loops[l].cycled => st.is_syncing /\ ~st.should_stop_syncing

\* C12: in each cycle of a sync loop the delegate is invoked exactly once and
\* before anything else; then has_first_synced is true; then, if
\* should_stop_syncing, is_syncing is false and the loop has ended for good
\* (no further cycle, no further invocation), else is_syncing is true and the
\* loop goes round again.  is_syncing does not become true before a loop has
\* completed a cycle.
C12_PerCycleRule ==
    [][ /\ \A l \in DOMAIN loops' : CycleRule(l)'
        /\ \A l \in DOMAIN loops : loops[l].pc = "stopped" => loops'[l] = loops[l]
        /\ (~st0.is_syncing /\ st'.is_syncing) => \E l \in DOMAIN loops' : loops'[l].cycled
      ]_vars

C12_Witness ==
    /\ ~st0.has_first_synced /\ ~st0.is_syncing
    /\ st.has_first_synced /\ st.is_syncing
    /\ \E l \in DOMAIN loops :
          loops[l].cycled /\ loops[l].pc = "rd_first" /\ loops[l].notes = 1

\* C13: every start_sync call spawns a loop of its own, whatever loops are
\* running: there are as many loops as calls, none of them has ended, each has
\* the delegate of its own call, and a loop in its callback has invoked that
\* delegate, once.
C13_NoIdempotencyGuard ==
    /\ Len(loops) = ch.startSyncCalls
    /\ \A l \in DOMAIN loops :
          /\ loops[l].pc # "stopped"
          /\ loops[l].dlg = l
          /\ loops[l].notes = (IF InCallback(l) THEN 1 ELSE 0)
          /\ loops[l].notes = 1 => loops[l].to = l

\* two calls, two loops, each in a cycle of its own and each having invoked
\* its own delegate, both about to write the same has_first_synced
C13_Witness ==
    /\ ch.startSyncCalls = 2
    /\ Len(loops) = 2
    /\ loops[1].pc = "wr_first" /\ loops[1].to = 1
    /\ loops[2].pc = "wr_first" /\ loops[2].to = 2

\* C18: whenever is_syncing is true, has_first_synced is true, with one loop
\* or with several.
C18_SyncingImpliesFirstSynced ==
    st.is_syncing => st.has_first_synced

\* is_syncing has been set by one of two loops while the other is in a callback
C18_Witness ==
    /\ st.is_syncing
    /\ Len(loops) = 2
    /\ loops[1].cycled
    /\ loops[2].pc = "rd_syncing" /\ ~loops[2].cycled

\* C19: should_stop_syncing is false in every state a built handle reaches;
\* no loop is ever on the stop branch or stopped; is_syncing, once true, is
\* never written back to false.
C19_StopBranchNeverTaken ==
    [][ /\ ~st.should_stop_syncing
        /\ ~st'.should_stop_syncing
        /\ \A l \in DOMAIN loops' : loops'[l].pc \notin {"wr_stop", "stopped"}
        /\ st.is_syncing => st'.is_syncing ]_vars

\* a loop has read should_stop_syncing, in a cycle after its first, with
\* is_syncing already true
C19_Witness ==
    /\ st.is_syncing
    /\ \E l \in DOMAIN loops : loops[l].cycled /\ loops[l].pc = "rd_syncing"

\* C20: the flag goes from true to false in a stop_live_event_listener call
\* and in no other step; so whenever the caller's last start/stop call is a
\* start that has returned (with a handle, with None or by the timeline
\* panic) the flag is true, whether or not a listener task is still running,
\* and a start that follows a start returns None and spawns nothing.
C20_OnlyStopClearsFlag ==
    [][ /\ (flag /\ ~flag') => (h'.lastFlagOp = "stop" /\ h'.calls = h.calls + 1)
        /\ (cpc' = "idle" /\ h'.lastFlagOp = "start") => flag'
        /\ (cpc' = "idle" /\ h'.prevFlagOp = "start" /\ h'.lastFlagOp = "start")
              => (res' = "None" /\ h'.callSpawned = 0)
      ]_vars

\* the stream has ended and the only listener task with it; the flag is still
\* set and a further start has returned None
C20_Witness ==
    /\ flag
    /\ closed
    /\ tasks # << >>
    /\ AliveTasks = {}
    /\ LastTwo("start", "start")
    /\ res = "None"

\* C16: every invocation of did_receive_message goes to the delegate that is
\* registered when it is made, that is, the one of the last set_delegate call
\* that has returned; nothing is invoked while none is registered; and an
\* invocation is for the item the invoking task holds at that moment, a task
\* never going back to an earlier item, so that an item consumed while no
\* delegate was registered is not delivered later.
C16_DelegateReplacedWholesale ==
    [][ /\ log' # log =>
              \E k \in DOMAIN tasks :
                  /\ tasks[k].pc = "deliver"
                  /\ delegate # "none"
                  /\ log' = Append(log,
                                   [ task |-> k, idx |-> tasks[k].cur, to |-> delegate,
                                     message |-> sync_event_to_message(events[tasks[k].cur],
                                                                       tasks[k].cur) ])
        /\ delegate = "none" => log' = log
        /\ \A k \in DOMAIN tasks : tasks[k].cur <= tasks'[k].cur
      ]_vars

\* d1 was invoked, set_delegate(d2) was called, and d2 was invoked
C16_Witness ==
    /\ delegate = "d2"
    /\ \E i, j \in DOMAIN log : i < j /\ log[i].to = "d1" /\ log[j].to = "d2"

\* C14: with two threads calling start_live_event_listener on a Room whose
\* flag is false, and no stop, at most one of the calls returns a handle and
\* at most one listener task is spawned, however the calls interleave.
C14_ConcurrentStartsSpawnOne ==
    /\ ~(res = "Some" /\ t2.res = "Some")
    /\ Len(tasks) <= 1

\* C15: once stop_live_event_listener has returned, and for as long as no
\* start is called after it, every listener task of the room eventually
\* exits, whether or not the forward stream yields another item.
C15_StopEndsListener ==
    [](h.stopped => <>(~h.stopped \/ AliveTasks = {}))

\* C17: a set_delegate call that waits for the write lock is eventually
\* granted it and returns, be it the caller thread's call or a call made from
\* inside did_receive_message on the listener task.
C17_SetDelegateReturns ==
    /\ (cpc = "set_delegate") ~> (cpc = "idle")
    /\ \A k \in 1..MaxCalls :
          (k \in DOMAIN tasks /\ tasks[k].pc = "cb_write")
              ~> (k \in DOMAIN tasks /\ tasks[k].pc = "callback")

====
